---- MODULE Spec2Model ----
(***************************************************************************)
(* Google Weather widgets for Scriptable: the current-conditions script    *)
(* (weatherwidget.js) and the forecast script (weatherwidget_daily.js).    *)
(* The model covers the cache helpers, the credential step, the condition  *)
(* normalisation and the MAIN flow of both scripts.                        *)
(*                                                                         *)
(* JavaScript values are records of one shape, so that any two of them can *)
(* be compared; strings are sequences of one-character strings.  The text  *)
(* of the cache file is a sequence of JSON tokens: JSON.stringify and      *)
(* JSON.parse are modelled as the conversions between the two.             *)
(***************************************************************************)
EXTENDS Integers, Sequences, FiniteSets, TLC

\* ---------------------------------------------------------------- bounds
MaxInvocations == 2
MaxElapses == 2
\* Date.now() of the first invocation, in milliseconds.
Epoch == 2000000

\* ------------------------------------------------------- JavaScript values
JSVal(t, b, n, s, ks, vs) == [t |-> t, b |-> b, n |-> n, s |-> s, ks |-> ks, vs |-> vs]

Undefined == JSVal("undef", FALSE, 0, <<>>, <<>>, <<>>)
Null == JSVal("null", FALSE, 0, <<>>, <<>>, <<>>)
Bool(b) == JSVal("bool", b, 0, <<>>, <<>>, <<>>)
Num(n) == JSVal("num", FALSE, n, <<>>, <<>>, <<>>)
Str(s) == JSVal("str", FALSE, 0, s, <<>>, <<>>)
Arr(vs) == JSVal("arr", FALSE, 0, <<>>, <<>>, vs)
\* An object: its own property names, in insertion order, and their values.
Obj(ks, vs) == JSVal("obj", FALSE, 0, <<>>, ks, vs)

\* Property names used by the scripts.
K_timestamp == <<"t", "i", "m", "e", "s", "t", "a", "m", "p">>
K_data == <<"d", "a", "t", "a">>
K_description == <<"d", "e", "s", "c", "r", "i", "p", "t", "i", "o", "n">>
K_text == <<"t", "e", "x", "t">>
K_type == <<"t", "y", "p", "e">>
K_forecastDays == <<"f", "o", "r", "e", "c", "a", "s", "t", "D", "a", "y", "s">>
K_isDaytime == <<"i", "s", "D", "a", "y", "t", "i", "m", "e">>
K_weatherCondition == <<"w", "e", "a", "t", "h", "e", "r", "C", "o", "n", "d", "i", "t", "i", "o", "n">>

\* !v : the values JavaScript treats as false.
Falsy(v) ==
  \/ v.t \in {"undef", "null"}
  \/ v.t = "bool" /\ ~v.b
  \/ v.t = "num" /\ v.n = 0
  \/ v.t = "str" /\ v.s = <<>>

\* typeof v === "string"
IsString(v) == v.t = "str"

\* v[k] for a value that is neither null nor undefined: an own property of an
\* object, undefined otherwise (none of the names used is a property of a
\* number, a boolean, a string or an array).
GetProp(v, k) ==
  IF v.t = "obj" /\ \E i \in 1..Len(v.ks) : v.ks[i] = k
  THEN v.vs[CHOOSE i \in 1..Len(v.ks) : v.ks[i] = k]
  ELSE Undefined

\* obj[k] = val on a plain object: replaces the value of an existing name,
\* appends a new one.
SetProp(o, k, val) ==
  IF \E i \in 1..Len(o.ks) : o.ks[i] = k
  THEN Obj(o.ks, [i \in 1..Len(o.ks) |-> IF o.ks[i] = k THEN val ELSE o.vs[i]])
  ELSE Obj(Append(o.ks, k), Append(o.vs, val))

\* --------------------------------------------------------------- JSON text
Tok(k) == [k |-> k, n |-> 0, s |-> <<>>]
NumTok(n) == [k |-> "num", n |-> n, s |-> <<>>]
StrTok(s) == [k |-> "str", n |-> 0, s |-> s]

RECURSIVE Stringify(_)
RECURSIVE StringifyElements(_, _)
RECURSIVE StringifyMembers(_, _, _, _)

\* The elements of an array from index i on; undefined is written as null.
StringifyElements(vs, i) ==
  IF i > Len(vs) THEN <<>>
  ELSE (IF i > 1 THEN <<Tok(",")>> ELSE <<>>)
       \o (IF vs[i].t = "undef" THEN <<Tok("null")>> ELSE Stringify(vs[i]))
       \o StringifyElements(vs, i + 1)

\* The members of an object from index i on; a member whose value is
\* undefined is left out.
StringifyMembers(ks, vs, i, first) ==
  IF i > Len(ks) THEN <<>>
  ELSE IF vs[i].t = "undef" THEN StringifyMembers(ks, vs, i + 1, first)
  ELSE (IF first THEN <<>> ELSE <<Tok(",")>>)
       \o <<StrTok(ks[i]), Tok(":")>> \o Stringify(vs[i])
       \o StringifyMembers(ks, vs, i + 1, FALSE)

\* JSON.stringify(v), as a token sequence.
Stringify(v) ==
  CASE v.t = "null" -> <<Tok("null")>>
    [] v.t = "bool" -> <<Tok(IF v.b THEN "true" ELSE "false")>>
    [] v.t = "num" -> <<NumTok(v.n)>>
    [] v.t = "str" -> <<StrTok(v.s)>>
    [] v.t = "arr" -> <<Tok("[")>> \o StringifyElements(v.vs, 1) \o <<Tok("]")>>
    [] v.t = "obj" -> <<Tok("{")>> \o StringifyMembers(v.ks, v.vs, 1, TRUE) \o <<Tok("}")>>
    [] OTHER -> <<>>

ParseFail == [ok |-> FALSE, v |-> Undefined, next |-> 0]
ParseOk(v, next) == [ok |-> TRUE, v |-> v, next |-> next]
HasTok(toks, i, k) == i <= Len(toks) /\ toks[i].k = k

RECURSIVE ParseValue(_, _)
RECURSIVE ParseElements(_, _, _)
RECURSIVE ParseMembers(_, _, _)

\* After "[" and the elements in acc: one more value, then "," or "]".
ParseElements(toks, i, acc) ==
  LET r == ParseValue(toks, i) IN
  IF ~r.ok THEN ParseFail
  ELSE IF HasTok(toks, r.next, ",") THEN ParseElements(toks, r.next + 1, Append(acc, r.v))
  ELSE IF HasTok(toks, r.next, "]") THEN ParseOk(Arr(Append(acc, r.v)), r.next + 1)
  ELSE ParseFail

\* After "{" and the members in acc: a name, ":", a value, then "," or "}".
ParseMembers(toks, i, acc) ==
  IF ~(HasTok(toks, i, "str") /\ HasTok(toks, i + 1, ":")) THEN ParseFail
  ELSE LET r == ParseValue(toks, i + 2) IN
       IF ~r.ok THEN ParseFail
       ELSE IF HasTok(toks, r.next, ",")
            THEN ParseMembers(toks, r.next + 1, SetProp(acc, toks[i].s, r.v))
       ELSE IF HasTok(toks, r.next, "}")
            THEN ParseOk(SetProp(acc, toks[i].s, r.v), r.next + 1)
       ELSE ParseFail

\* One JSON value starting at token i.
ParseValue(toks, i) ==
  IF i > Len(toks) THEN ParseFail
  ELSE CASE toks[i].k = "null" -> ParseOk(Null, i + 1)
         [] toks[i].k = "true" -> ParseOk(Bool(TRUE), i + 1)
         [] toks[i].k = "false" -> ParseOk(Bool(FALSE), i + 1)
         [] toks[i].k = "num" -> ParseOk(Num(toks[i].n), i + 1)
         [] toks[i].k = "str" -> ParseOk(Str(toks[i].s), i + 1)
         [] toks[i].k = "[" ->
              IF HasTok(toks, i + 1, "]") THEN ParseOk(Arr(<<>>), i + 2)
              ELSE ParseElements(toks, i + 1, <<>>)
         [] toks[i].k = "{" ->
              IF HasTok(toks, i + 1, "}") THEN ParseOk(Obj(<<>>, <<>>), i + 2)
              ELSE ParseMembers(toks, i + 1, Obj(<<>>, <<>>))
         [] OTHER -> ParseFail

\* JSON.parse(text): ok is FALSE where it throws a SyntaxError.
JSONparse(toks) ==
  LET r == ParseValue(toks, 1) IN
  IF r.ok /\ r.next = Len(toks) + 1 THEN r ELSE ParseFail

\* ------------------------------------------------------------ configuration
\* The two scripts: weatherwidget.js and weatherwidget_daily.js.
Variants == {"current", "daily"}
\* CACHE_MIN: cache lifetime in minutes.
CACHE_MIN(v) == IF v = "current" THEN 5 ELSE 20
\* REFRESH_MIN: the refresh the normal widget suggests, in minutes.
REFRESH_MIN(v) == IF v = "current" THEN 10 ELSE 30
\* The refresh the error widget suggests, in minutes.
ERROR_REFRESH_MIN(v) == IF v = "current" THEN 15 ELSE 30
\* Milliseconds in a minute.
MsPerMin == 60000

\* ------------------------------------------------------------ cache helpers
NoFile == [exists |-> FALSE, text |-> <<>>]
FileOf(text) == [exists |-> TRUE, text |-> text]

\* timestamp as a number: NaN for what is not a number (no string of the
\* model is numeric).
IsNaN(ts) == ts.t \notin {"num", "bool", "null"}
ToNumber(ts) == IF ts.t = "num" THEN ts.n ELSE IF ts.t = "bool" /\ ts.b THEN 1 ELSE 0

\* Mutant of Expired: a record never expires.
Expired_Never(variant, now, ts) == FALSE

\* Mutant of Expired: the record expires at the boundary already.
Expired_AtBoundary(variant, now, ts) ==
  ~IsNaN(ts) /\ now - ToNumber(ts) >= CACHE_MIN(variant) * MsPerMin

\* ageMin > CACHE_MIN with ageMin = (now - timestamp) / 60000; a comparison
\* with NaN is false.
Expired(variant, now, ts) ==
  ~IsNaN(ts) /\ now - ToNumber(ts) > CACHE_MIN(variant) * MsPerMin

Returned(v) == [threw |-> FALSE, value |-> v]
Threw == [threw |-> TRUE, value |-> Undefined]

\* The try block of readCache: JSON.parse throws a SyntaxError, and
\* obj.timestamp on null a TypeError.
readCacheTry(v, f, now) ==
  LET p == JSONparse(f.text) IN
  IF ~p.ok THEN Threw
  ELSE IF p.v.t \in {"null", "undef"} THEN Threw
  ELSE IF Falsy(GetProp(p.v, K_timestamp)) THEN Returned(Null)
  ELSE IF Expired(v, now, GetProp(p.v, K_timestamp)) THEN Returned(Null)
  ELSE Returned(GetProp(p.v, K_data))

\* Mutant of readCache: the try block without its catch.
readCache_NoCatch(v, f, now) ==
  IF ~f.exists THEN Returned(Null) ELSE readCacheTry(v, f, now)

\* readCache(): the data of a record that has not expired, null otherwise;
\* catch (_) { return null; }
readCache(v, f, now) ==
  IF ~f.exists THEN Returned(Null)
  ELSE IF readCacheTry(v, f, now).threw THEN Returned(Null)
  ELSE readCacheTry(v, f, now)

\* Mutant of cacheFileAfterRead: a record that is not usable is removed.
cacheFileAfterRead_DeleteStale(v, f, now) ==
  IF f.exists /\ readCache(v, f, now).value = Null THEN NoFile ELSE f

\* The cache file after readCache: it only reads.
cacheFileAfterRead(v, f, now) == f

\* The record writeCache serializes.
CacheRecord(now, data) == Obj(<<K_timestamp, K_data>>, <<Num(now), data>>)

\* Mutant of writeCache: the new data is merged into a record that is there,
\* whose own data wins.
writeCache_Merge(file, data, now, ioFails) ==
  IF ioFails THEN [file |-> file, threw |-> FALSE]
  ELSE LET old == IF file.exists THEN readCacheTry("daily", file, now) ELSE Threw IN
       [file |-> FileOf(Stringify(CacheRecord(now,
                   IF ~old.threw /\ ~Falsy(old.value) THEN old.value ELSE data))),
        threw |-> FALSE]

\* Mutant of writeCache: the try block without its catch.
writeCache_NoCatch(file, data, now, ioFails) ==
  IF ioFails THEN [file |-> file, threw |-> TRUE]
  ELSE [file |-> FileOf(Stringify(CacheRecord(now, data))), threw |-> FALSE]

\* writeCache(data): the file afterwards, and whether an error leaves the
\* function.  ioFails: fm.writeString throws and writes nothing.
writeCache(file, data, now, ioFails) ==
  IF ioFails THEN [file |-> file, threw |-> FALSE]
  ELSE [file |-> FileOf(Stringify(CacheRecord(now, data))), threw |-> FALSE]

\* ------------------------------------------------------------- safe getter
RECURSIVE Reduce(_, _, _)
\* path.split(".").reduce((o, k) => (o && o[k] !== undefined ? o[k] : null), obj)
Reduce(o, path, i) ==
  IF i > Len(path) THEN o
  ELSE Reduce(IF ~Falsy(o) /\ GetProp(o, path[i]).t # "undef"
              THEN GetProp(o, path[i]) ELSE Null, path, i + 1)

\* g(obj, path, fallback); path is given as the sequence of its names.
g(obj, path, fallback) ==
  LET r == Reduce(obj, path, 1) IN
  IF r.t \in {"null", "undef"} THEN fallback ELSE r

\* ------------------------------------------------------------- credentials
NoError == [msg |-> "", code |-> 0]
Error(msg) == [msg |-> msg, code |-> 0]

Whitespace == {" ", "\t", "\n"}
RECURSIVE TrimStart(_)
TrimStart(s) == IF s # <<>> /\ Head(s) \in Whitespace THEN TrimStart(Tail(s)) ELSE s
RECURSIVE TrimEnd(_)
TrimEnd(s) ==
  IF s # <<>> /\ s[Len(s)] \in Whitespace THEN TrimEnd(SubSeq(s, 1, Len(s) - 1)) ELSE s
\* String.prototype.trim
Trim(s) == TrimEnd(TrimStart(s))

NoKeychain == [has |-> FALSE, val |-> <<>>]
\* Keychain.contains(KEYCHAIN_KEY) ? Keychain.get(KEYCHAIN_KEY) : null
StoredKey(kc) == IF kc.has THEN Str(kc.val) ELSE Null

\* Whether getApiKey presents the alert.
Prompts(kc) == Falsy(StoredKey(kc))

\* Mutant of getApiKey: the entered key is stored before it is checked.
getApiKey_StoreBeforeCheck(kc, prompt) ==
  IF ~Prompts(kc)
  THEN [threw |-> FALSE, err |-> NoError, key |-> StoredKey(kc), keychain |-> kc]
  ELSE IF prompt.idx = -1
  THEN [threw |-> TRUE, err |-> Error("API key input cancelled."), key |-> Null,
        keychain |-> kc]
  ELSE IF Falsy(Str(Trim(prompt.text)))
  THEN [threw |-> TRUE, err |-> Error("Empty API key."), key |-> Null,
        keychain |-> [has |-> TRUE, val |-> Trim(prompt.text)]]
  ELSE [threw |-> FALSE, err |-> NoError, key |-> Str(Trim(prompt.text)),
        keychain |-> [has |-> TRUE, val |-> Trim(prompt.text)]]

\* getApiKey(); prompt is what the alert returns: the index of the action
\* chosen (-1: cancelled) and the text of the field.
getApiKey(kc, prompt) ==
  IF ~Prompts(kc)
  THEN [threw |-> FALSE, err |-> NoError, key |-> StoredKey(kc), keychain |-> kc]
  ELSE IF prompt.idx = -1
  THEN [threw |-> TRUE, err |-> Error("API key input cancelled."), key |-> Null,
        keychain |-> kc]
  ELSE IF Falsy(Str(Trim(prompt.text)))
  THEN [threw |-> TRUE, err |-> Error("Empty API key."), key |-> Null, keychain |-> kc]
  ELSE [threw |-> FALSE, err |-> NoError, key |-> Str(Trim(prompt.text)),
        keychain |-> [has |-> TRUE, val |-> Trim(prompt.text)]]

\* ---------------------------------------------------------------- location
\* getLocation() with USE_CURRENT_LOCATION = true.  fix: Location.current()
\* returns; geocoded: reverseGeocode returns placemarks; locality: the
\* locality of the first one (null if none).
getLocation(env) ==
  IF ~env.fix
  THEN [threw |-> TRUE, err |-> Error("Location unavailable."), name |-> Null]
  ELSE [threw |-> FALSE, err |-> NoError,
        name |-> IF env.geocoded /\ ~Falsy(env.locality) THEN env.locality ELSE Null]

\* ------------------------------------------------------------------- fetch
\* fetchWeather / fetchForecast.  loaded: req.loadJSON() returns (it throws
\* on a transport failure, a timeout or a body that is not JSON); status:
\* req.response.statusCode, 0 where the host exposes none; body: the parsed
\* JSON.
fetchWeather(resp) ==
  IF ~resp.loaded
  THEN [threw |-> TRUE, err |-> Error("The request timed out."), json |-> Undefined]
  ELSE IF resp.status # 0 /\ resp.status >= 400
  THEN [threw |-> TRUE, err |-> [msg |-> "HTTP", code |-> resp.status], json |-> Undefined]
  ELSE [threw |-> FALSE, err |-> NoError, json |-> resp.body]

\* ---------------------------------------------------- condition normalisation
\* normalizeConditionText(weatherCondition), the same in both scripts.
normalizeConditionText(wc) ==
  IF Falsy(wc) THEN Null
  ELSE IF IsString(wc) THEN wc
  ELSE IF IsString(GetProp(wc, K_description)) THEN GetProp(wc, K_description)
  ELSE IF ~Falsy(GetProp(wc, K_description))
          /\ IsString(GetProp(GetProp(wc, K_description), K_text))
       THEN GetProp(GetProp(wc, K_description), K_text)
  ELSE IF IsString(GetProp(wc, K_type)) THEN GetProp(wc, K_type)
  ELSE Null

\* ----------------------------------------------------------------- strings
LowerCase == <<"a", "b", "c", "d", "e", "f", "g", "h", "i", "j", "k", "l", "m",
               "n", "o", "p", "q", "r", "s", "t", "u", "v", "w", "x", "y", "z">>
UpperCase == <<"A", "B", "C", "D", "E", "F", "G", "H", "I", "J", "K", "L", "M",
               "N", "O", "P", "Q", "R", "S", "T", "U", "V", "W", "X", "Y", "Z">>

\* String.prototype.toLowerCase / toUpperCase, on the characters.
toLowerCase(s) ==
  [i \in 1..Len(s) |->
     IF \E j \in 1..26 : UpperCase[j] = s[i]
     THEN LowerCase[CHOOSE j \in 1..26 : UpperCase[j] = s[i]] ELSE s[i]]
toUpperCase(s) ==
  [i \in 1..Len(s) |->
     IF \E j \in 1..26 : LowerCase[j] = s[i]
     THEN UpperCase[CHOOSE j \in 1..26 : LowerCase[j] = s[i]] ELSE s[i]]

\* String.prototype.includes
Includes(s, sub) ==
  \E i \in 1..(Len(s) - Len(sub) + 1) : SubSeq(s, i, i + Len(sub) - 1) = sub

DigitChars == <<"0", "1", "2", "3", "4", "5", "6", "7", "8", "9">>
RECURSIVE Digits(_)
\* The decimal digits of an integer, as in String(n).
Digits(n) ==
  IF n < 0 THEN <<"-">> \o Digits(-n)
  ELSE IF n < 10 THEN <<DigitChars[n + 1]>>
  ELSE Digits(n \div 10) \o <<DigitChars[(n % 10) + 1]>>

\* String(v) for a string, a number or a boolean; an object gives
\* "[object Object]".
StringOf(v) ==
  CASE v.t = "str" -> v.s
    [] v.t = "num" -> Digits(v.n)
    [] v.t = "bool" -> IF v.b THEN <<"t", "r", "u", "e">> ELSE <<"f", "a", "l", "s", "e">>
    [] v.t = "null" -> <<"n", "u", "l", "l">>
    [] OTHER -> <<"[", "o", "b", "j", "e", "c", "t", " ", "O", "b", "j", "e", "c", "t", "]">>

\* ------------------------------------------------------- condition -> symbol
\* getConditionType(weatherCondition) of the forecast script.
getConditionType(wc) ==
  IF Falsy(wc) THEN <<>>
  ELSE IF Falsy(GetProp(wc, K_type)) THEN <<>>
  ELSE toUpperCase(StringOf(GetProp(wc, K_type)))

\* pickSymbol of the current-conditions script, on the lowercased text.
textSymbolCurrent(t, day) ==
  IF Includes(t, <<"t", "h", "u", "n", "d", "e", "r">>) \/ Includes(t, <<"s", "t", "o", "r", "m">>) THEN "cloud.bolt.rain.fill"
  ELSE IF Includes(t, <<"s", "n", "o", "w">>) \/ Includes(t, <<"s", "l", "e", "e", "t">>) THEN "cloud.snow.fill"
  ELSE IF Includes(t, <<"r", "a", "i", "n">>) \/ Includes(t, <<"d", "r", "i", "z", "z", "l", "e">>) THEN "cloud.rain.fill"
  ELSE IF Includes(t, <<"f", "o", "g">>) \/ Includes(t, <<"m", "i", "s", "t">>) \/ Includes(t, <<"h", "a", "z", "e">>) THEN "cloud.fog.fill"
  ELSE IF Includes(t, <<"o", "v", "e", "r", "c", "a", "s", "t">>) THEN "smoke.fill"
  ELSE IF Includes(t, <<"c", "l", "o", "u", "d">>) THEN (IF day THEN "cloud.sun.fill" ELSE "cloud.moon.fill")
  ELSE IF Includes(t, <<"c", "l", "e", "a", "r">>) \/ Includes(t, <<"s", "u", "n", "n", "y">>) THEN (IF day THEN "sun.max.fill" ELSE "moon.stars.fill")
  ELSE IF day THEN "sun.max.fill" ELSE "moon.stars.fill"

\* pickSymbol(weatherCondition, isDaytime) of the current-conditions script.
pickSymbolCurrent(wc, isDaytime) ==
  textSymbolCurrent(
    toLowerCase(IF Falsy(normalizeConditionText(wc)) THEN <<>>
                ELSE normalizeConditionText(wc).s),
    ~Falsy(isDaytime))

\* The rules of the forecast script's pickSymbol on the uppercased type; ""
\* where none matches.
typedSymbol(t, day) ==
  IF Includes(t, <<"T", "H", "U", "N", "D", "E", "R">>) \/ Includes(t, <<"S", "T", "O", "R", "M">>) THEN "cloud.bolt.rain.fill"
  ELSE IF Includes(t, <<"S", "N", "O", "W">>) THEN "cloud.snow.fill"
  ELSE IF Includes(t, <<"R", "A", "I", "N">>) THEN "cloud.rain.fill"
  ELSE IF Includes(t, <<"S", "H", "O", "W", "E", "R", "S">>) THEN "cloud.rain.fill"
  ELSE IF Includes(t, <<"F", "O", "G">>) THEN "cloud.fog.fill"
  ELSE IF Includes(t, <<"H", "A", "Z", "E">>) \/ Includes(t, <<"M", "I", "S", "T">>) THEN "cloud.fog.fill"
  ELSE IF Includes(t, <<"O", "V", "E", "R", "C", "A", "S", "T">>) THEN "smoke.fill"
  ELSE IF Includes(t, <<"M", "O", "S", "T", "L", "Y", "_", "C", "L", "O", "U", "D", "Y">>) \/ Includes(t, <<"C", "L", "O", "U", "D", "Y">>)
       THEN (IF day THEN "cloud.sun.fill" ELSE "cloud.moon.fill")
  ELSE IF Includes(t, <<"P", "A", "R", "T", "L", "Y", "_", "C", "L", "O", "U", "D", "Y">>) THEN (IF day THEN "cloud.sun.fill" ELSE "cloud.moon.fill")
  ELSE IF Includes(t, <<"C", "L", "E", "A", "R">>) \/ Includes(t, <<"S", "U", "N", "N", "Y">>) THEN (IF day THEN "sun.max.fill" ELSE "moon.stars.fill")
  ELSE ""

\* The fallback of the forecast script's pickSymbol, on the lowercased
\* description.
textSymbolDaily(desc, day) ==
  IF Includes(desc, <<"s", "t", "o", "r", "m">>) \/ Includes(desc, <<"t", "h", "u", "n", "d", "e", "r">>) THEN "cloud.bolt.rain.fill"
  ELSE IF Includes(desc, <<"s", "n", "o", "w">>) THEN "cloud.snow.fill"
  ELSE IF Includes(desc, <<"r", "a", "i", "n">>) THEN "cloud.rain.fill"
  ELSE IF Includes(desc, <<"f", "o", "g">>) \/ Includes(desc, <<"m", "i", "s", "t">>) \/ Includes(desc, <<"h", "a", "z", "e">>) THEN "cloud.fog.fill"
  ELSE IF Includes(desc, <<"c", "l", "o", "u", "d">>) THEN (IF day THEN "cloud.sun.fill" ELSE "cloud.moon.fill")
  ELSE IF Includes(desc, <<"c", "l", "e", "a", "r">>) \/ Includes(desc, <<"s", "u", "n", "n", "y">>)
       THEN (IF day THEN "sun.max.fill" ELSE "moon.stars.fill")
  ELSE IF day THEN "sun.max.fill" ELSE "moon.stars.fill"

\* Mutant of pickSymbolDaily: the description is consulted before the type.
pickSymbolDaily_TextFirst(wc, isDaytime) ==
  IF ~Falsy(wc) /\ ~Falsy(GetProp(wc, K_description))
  THEN textSymbolDaily(
         toLowerCase(IF Falsy(normalizeConditionText(wc)) THEN <<>>
                     ELSE normalizeConditionText(wc).s),
         ~Falsy(isDaytime))
  ELSE IF typedSymbol(toUpperCase(getConditionType(wc)), ~Falsy(isDaytime)) # ""
  THEN typedSymbol(toUpperCase(getConditionType(wc)), ~Falsy(isDaytime))
  ELSE textSymbolDaily(
         toLowerCase(IF Falsy(normalizeConditionText(wc)) THEN <<>>
                     ELSE normalizeConditionText(wc).s),
         ~Falsy(isDaytime))

\* pickSymbol(weatherCondition, isDaytime) of the forecast script.
pickSymbolDaily(wc, isDaytime) ==
  IF typedSymbol(toUpperCase(getConditionType(wc)), ~Falsy(isDaytime)) # ""
  THEN typedSymbol(toUpperCase(getConditionType(wc)), ~Falsy(isDaytime))
  ELSE textSymbolDaily(
         toLowerCase(IF Falsy(normalizeConditionText(wc)) THEN <<>>
                     ELSE normalizeConditionText(wc).s),
         ~Falsy(isDaytime))

\* --------------------------------------------------------------------- wind
K_speed == <<"s", "p", "e", "e", "d">>
K_value == <<"v", "a", "l", "u", "e">>
K_unit == <<"u", "n", "i", "t">>
K_direction == <<"d", "i", "r", "e", "c", "t", "i", "o", "n">>
K_degrees == <<"d", "e", "g", "r", "e", "e", "s">>

\* The numbers of a wind record are held in hundredths: 840 is 8.4.
Scale == 100
Scaled(v) == IF v.t = "num" THEN v.n ELSE ToNumber(v) * Scale

\* a % b of JavaScript: the remainder has the sign of the dividend.
Rem(a, b) == IF a >= 0 THEN a % b ELSE -((-a) % b)

\* Math.round(num / den), den > 0: the nearest integer, a half rounded up.
MathRound(num, den) == (2 * num + den) \div (2 * den)

dirs ==
  << <<"N">>, <<"N", "N", "E">>, <<"N", "E">>, <<"E", "N", "E">>, <<"E">>, <<"E", "S", "E">>, <<"S", "E">>, <<"S", "S", "E">>,
     <<"S">>, <<"S", "S", "W">>, <<"S", "W">>, <<"W", "S", "W">>, <<"W">>, <<"W", "N", "W">>, <<"N", "W">>, <<"N", "N", "W">> >>

\* degToDir(deg), the same in both scripts; an index outside the array reads
\* undefined.
degToDir(deg) ==
  IF deg.t \in {"undef", "null"} \/ IsNaN(deg) THEN Str(<<>>)
  ELSE LET i == Rem(MathRound(2 * Rem(Scaled(deg), 360 * Scale), 45 * Scale), 16)
       IN IF i \in 0..15 THEN Str(dirs[i + 1]) ELSE Undefined

\* The character U+2014.
EmDash == <<"U+2014">>

\* fmtWind(windObj), the same in both scripts.
fmtWind(windObj) ==
  LET spdVal == g(windObj, <<K_speed, K_value>>, Null)
      spdUnit == g(windObj, <<K_speed, K_unit>>, Null)
      sym == IF spdUnit = Str(<<"M", "I", "L", "E", "_", "P", "E", "R", "_", "H", "O", "U", "R">>) THEN <<"m", "p", "h">>
             ELSE IF spdUnit = Str(<<"M", "E", "T", "E", "R", "_", "P", "E", "R", "_", "S", "E", "C", "O", "N", "D">>) THEN <<"m", "/", "s">>
             ELSE <<"k", "m", "/", "h">>
      dirTxt == degToDir(g(windObj, <<K_direction, K_degrees>>, Null))
  IN IF spdVal.t \in {"undef", "null"} THEN EmDash
     ELSE (IF IsNaN(spdVal) THEN <<"N", "a", "N">> ELSE Digits(MathRound(Scaled(spdVal), Scale)))
            \o <<" ">> \o sym
            \o (IF Falsy(dirTxt) THEN <<>> ELSE <<" ">> \o dirTxt.s)

\* -------------------------------------------------------------------- MAIN
\* Mutant of adoptFresh: a cached value is kept when there is one.
adoptFresh_PreferCache(cached, json) == IF Falsy(cached) THEN json ELSE cached

\* data = fresh;  (the fetch succeeded)
adoptFresh(cached, json) == json

\* Mutant of rethrows: the handler never rethrows.
rethrows_Never(cached) == FALSE

\* if (!data) throw netErr;  (the fetch failed)
rethrows(cached) == Falsy(cached)

\* ------------------------------------------------------------------ render
NoWidget == [kind |-> "none", data |-> Undefined, err |-> NoError, refreshAfter |-> 0]

\* buildWidget(data, placeName), as far as MAIN is concerned: the widget is
\* built from data.  The forecast script returns before it sets
\* refreshAfterDate when forecastDays is not a non-empty array.
buildWidget(variant, data, now) ==
  [kind |-> "normal", data |-> data, err |-> NoError,
   refreshAfter |->
     IF variant = "daily"
        /\ LET daysArr == g(data, <<K_forecastDays>>, Arr(<<>>)) IN
           daysArr.t # "arr" \/ Len(daysArr.vs) = 0
     THEN 0
     ELSE now + REFRESH_MIN(variant) * MsPerMin]

\* The widget of the outer catch block: String(err) and a refresh hint.
errorWidget(variant, err, now) ==
  [kind |-> "error", data |-> Undefined, err |-> err,
   refreshAfter |-> now + ERROR_REFRESH_MIN(variant) * MsPerMin]

\* ------------------------------------------------------------- environment
\* Responses of the weather API.
Payloads ==
  { Null, Num(0), Str(<<>>), Obj(<<>>, <<>>),
    Obj(<<K_forecastDays>>, <<Arr(<<>>)>>),
    Obj(<<K_forecastDays>>, <<Arr(<<Obj(<<>>, <<>>)>>)>>),
    Obj(<<K_isDaytime, K_weatherCondition>>,
        <<Bool(TRUE), Obj(<<K_type>>, <<Str(<<"R", "A", "I", "N">>)>>)>>) }

Statuses == {0, 200, 399, 400}
Responses ==
  [loaded : {FALSE}, status : {0}, body : {Null}]
    \cup [loaded : {TRUE}, status : Statuses, body : Payloads]

\* What the alert of getApiKey can return.
PromptResults ==
  [idx : {-1, 0}, text : {<<>>, <<" ">>, <<"k">>, <<" ", "k", "\n">>}]

Krakow == Str(<<"K", "r", "a", "k", "o", "w">>)
LocationResults ==
  { [fix |-> FALSE, geocoded |-> FALSE, locality |-> Null],
    [fix |-> TRUE, geocoded |-> FALSE, locality |-> Null],
    [fix |-> TRUE, geocoded |-> TRUE, locality |-> Null],
    [fix |-> TRUE, geocoded |-> TRUE, locality |-> Krakow] }

\* Cache files an invocation can find: none, damaged ones, and records of
\* earlier runs, some of them older than the lifetime.
MalformedTexts ==
  { <<>>, <<Tok("{")>>, <<Tok("{"), StrTok(K_timestamp), Tok(":")>>,
    <<Tok("null")>>, <<NumTok(7)>>, <<StrTok(K_timestamp)>>, <<Tok("["), Tok("]")>>,
    Stringify(Obj(<<>>, <<>>)),
    Stringify(Obj(<<K_data>>, <<Obj(<<>>, <<>>)>>)),
    Stringify(Obj(<<K_timestamp, K_data>>, <<Null, Obj(<<>>, <<>>)>>)),
    Stringify(CacheRecord(0, Obj(<<>>, <<>>))) }

EarlierPayloads ==
  { Null, Num(0), Obj(<<>>, <<>>), Obj(<<K_forecastDays>>, <<Arr(<<Obj(<<>>, <<>>)>>)>>) }

EarlierTimestamps(variant) ==
  { Epoch - CACHE_MIN(variant) * MsPerMin - 1, Epoch - CACHE_MIN(variant) * MsPerMin,
    Epoch - 1 }

InitialFiles(variant) ==
  {NoFile} \cup {FileOf(t) : t \in MalformedTexts}
    \cup {FileOf(Stringify(CacheRecord(ts, d))) :
            ts \in EarlierTimestamps(variant), d \in EarlierPayloads}

InitialKeychains == {NoKeychain, [has |-> TRUE, val |-> <<>>]}

\* Time that passes between two steps, in milliseconds.
Delays(variant) == {1, CACHE_MIN(variant) * MsPerMin}

\* ------------------------------------------------------------------- state
VARIABLES
  variant,      \* which script runs
  clock,        \* Date.now()
  keychain,     \* the Keychain entry KEYCHAIN_KEY
  file,         \* the cache file at cachePath
  pc,           \* position in MAIN
  apiKey, loc, data,  \* the variables of MAIN
  fresh,        \* the const of the inner try block
  err,          \* the error caught by the outer catch block
  widget,       \* the widget handed to Script.setWidget / present
  invocations,  \* runs of the script so far
  elapses,      \* delays so far
  trace,        \* history: the steps of this invocation, in order
  startLog,     \* history: the Keychain entry and the file when this invocation began
  readLog,      \* history: this invocation's readCache: file, time, result
  lastWrite,    \* history: the last write of the cache file that went through
  weatherCondition,  \* presenter: the raw condition given to the function
  isDaytime,    \* presenter: the isDaytime argument of pickSymbol
  condText,     \* presenter: what normalizeConditionText returned
  symbolCurrent,  \* presenter: what the current-conditions pickSymbol returned
  symbolDaily,  \* presenter: what the forecast pickSymbol returned
  wind,         \* presenter: the wind record given to fmtWind
  windStr,      \* presenter: what fmtWind returned
  ppc           \* presenter: "off", "input" or the function applied

main == <<variant, clock, keychain, file, pc, apiKey, loc, data, fresh, err, widget,
          invocations, elapses, trace, startLog, readLog, lastWrite>>
presenter ==
  <<weatherCondition, isDaytime, condText, symbolCurrent, symbolDaily, wind, windStr, ppc>>
vars == <<main, presenter>>

\* Whether this invocation has taken the step.
Did(step) == \E i \in 1..Len(trace) : trace[i] = step

NoWrite == [done |-> FALSE, at |-> 0, data |-> Undefined, replaced |-> FALSE]
NoRead == [done |-> FALSE, file |-> NoFile, parsed |-> ParseFail, at |-> 0,
           result |-> Undefined, written |-> NoWrite]

Init ==
  /\ variant \in Variants
  /\ clock = Epoch
  /\ keychain \in InitialKeychains
  /\ file \in InitialFiles(variant)
  /\ pc = "idle"
  /\ apiKey = Undefined /\ loc = Undefined /\ data = Undefined /\ fresh = Undefined
  /\ err = NoError
  /\ widget = NoWidget
  /\ invocations = 0
  /\ elapses = 0
  /\ trace = <<>>
  /\ startLog = [keychain |-> keychain, file |-> file]
  /\ readLog = NoRead
  /\ lastWrite = NoWrite
  /\ weatherCondition = Undefined /\ isDaytime = Undefined
  /\ condText = Undefined /\ symbolCurrent = "" /\ symbolDaily = ""
  /\ wind = Undefined /\ windStr = <<>>
  /\ ppc = "off"

\* The host runs the script: `let apiKey, loc, data;`
Start ==
  /\ pc \in {"idle", "complete"}
  /\ invocations < MaxInvocations
  /\ invocations' = invocations + 1
  /\ pc' = "getApiKey"
  /\ apiKey' = Undefined /\ loc' = Undefined /\ data' = Undefined /\ fresh' = Undefined
  /\ err' = NoError
  /\ widget' = NoWidget
  /\ trace' = <<>>
  /\ startLog' = [keychain |-> keychain, file |-> file]
  /\ readLog' = NoRead
  /\ UNCHANGED <<variant, clock, keychain, file, elapses, lastWrite>>
  /\ UNCHANGED presenter

\* apiKey = await getApiKey();
GetApiKey ==
  /\ pc = "getApiKey"
  /\ \E prompt \in PromptResults :
       LET r == getApiKey(keychain, prompt) IN
       /\ keychain' = r.keychain
       /\ trace' = Append(trace, "getApiKey")
       /\ IF r.threw
          THEN /\ err' = r.err /\ pc' = "catch" /\ UNCHANGED apiKey
          ELSE /\ apiKey' = r.key /\ pc' = "getLocation" /\ UNCHANGED err
  /\ UNCHANGED <<variant, clock, file, loc, data, fresh, widget, invocations, elapses,
                 startLog, readLog, lastWrite>>
  /\ UNCHANGED presenter

\* loc = await getLocation();
GetLocation ==
  /\ pc = "getLocation"
  /\ \E env \in LocationResults :
       LET r == getLocation(env) IN
       /\ trace' = Append(trace, "getLocation")
       /\ IF r.threw
          THEN /\ err' = r.err /\ pc' = "catch" /\ UNCHANGED loc
          ELSE /\ loc' = r.name /\ pc' = "readCache" /\ UNCHANGED err
  /\ UNCHANGED <<variant, clock, keychain, file, apiKey, data, fresh, widget, invocations,
                 elapses, startLog, readLog, lastWrite>>
  /\ UNCHANGED presenter

\* data = readCache();  and the request of the inner try block is sent.
ReadCache ==
  /\ pc = "readCache"
  /\ LET r == readCache(variant, file, clock) IN
     /\ readLog' = [done |-> TRUE, file |-> file, parsed |-> JSONparse(file.text),
                    at |-> clock, result |-> r.value, written |-> lastWrite]
     /\ IF r.threw
        THEN /\ err' = Error("SyntaxError") /\ pc' = "catch" /\ UNCHANGED data
             /\ trace' = Append(trace, "readThrew")
        ELSE /\ data' = r.value /\ pc' = "fetch" /\ UNCHANGED err
             /\ trace' = Append(trace, "readCache")
  /\ file' = cacheFileAfterRead(variant, file, clock)
  /\ UNCHANGED <<variant, clock, keychain, apiKey, loc, fresh, widget, invocations,
                 elapses, startLog, lastWrite>>
  /\ UNCHANGED presenter

\* Mutant of Fetch: a failed request is sent once more.
Fetch_Retry ==
  /\ pc = "fetch"
  /\ \E resp \in Responses :
       LET r == fetchWeather(resp) IN
       IF ~r.threw
       THEN /\ fresh' = r.json /\ data' = adoptFresh(data, r.json)
            /\ trace' = Append(trace, "fetchOk")
            /\ pc' = "writeCache"
            /\ UNCHANGED err
       ELSE /\ trace' = Append(trace, "fetchFailed")
            /\ IF ~Did("fetchFailed")
               THEN err' = err /\ pc' = "fetch"
               ELSE IF rethrows(data)
               THEN err' = r.err /\ pc' = "catch"
               ELSE err' = err /\ pc' = "build"
            /\ UNCHANGED <<fresh, data>>
  /\ UNCHANGED <<variant, clock, keychain, file, apiKey, loc, widget, invocations,
                 elapses, startLog, readLog, lastWrite>>
  /\ UNCHANGED presenter

\* const fresh = await fetchWeather(...); data = fresh;  or the handler of the
\* inner try block: if (!data) throw netErr.
Fetch ==
  /\ pc = "fetch"
  /\ \E resp \in Responses :
       LET r == fetchWeather(resp) IN
       IF ~r.threw
       THEN /\ fresh' = r.json /\ data' = adoptFresh(data, r.json)
            /\ trace' = Append(trace, "fetchOk")
            /\ pc' = "writeCache"
            /\ UNCHANGED err
       ELSE /\ trace' = Append(trace, "fetchFailed")
            /\ IF rethrows(data)
               THEN err' = r.err /\ pc' = "catch"
               ELSE err' = err /\ pc' = "build"
            /\ UNCHANGED <<fresh, data>>
  /\ UNCHANGED <<variant, clock, keychain, file, apiKey, loc, widget, invocations,
                 elapses, startLog, readLog, lastWrite>>
  /\ UNCHANGED presenter

\* writeCache(fresh);
WriteCache ==
  /\ pc = "writeCache"
  /\ \E ioFails \in BOOLEAN :
       LET w == writeCache(file, fresh, clock, ioFails) IN
       /\ file' = w.file
       /\ lastWrite' = IF ioFails THEN lastWrite
                       ELSE [done |-> TRUE, at |-> clock, data |-> fresh,
                             replaced |-> file.exists]
       /\ trace' = Append(trace, IF ioFails THEN "writeFailed" ELSE "writeCache")
       /\ IF w.threw
          THEN err' = Error("write failed") /\ pc' = "catch"
          ELSE err' = err /\ pc' = "build"
  /\ UNCHANGED <<variant, clock, keychain, apiKey, loc, data, fresh, widget, invocations,
                 elapses, startLog, readLog>>
  /\ UNCHANGED presenter

\* const widget = await buildWidget(data, placeName); the widget is presented
\* or set; Script.complete().
Render ==
  /\ pc = "build"
  /\ widget' = buildWidget(variant, data, clock)
  /\ trace' = Append(trace, "render")
  /\ pc' = "complete"
  /\ UNCHANGED <<variant, clock, keychain, file, apiKey, loc, data, fresh, err,
                 invocations, elapses, startLog, readLog, lastWrite>>
  /\ UNCHANGED presenter

\* catch (err) { ... }: the error widget; Script.complete().
ShowError ==
  /\ pc = "catch"
  /\ widget' = errorWidget(variant, err, clock)
  /\ trace' = Append(trace, "error")
  /\ pc' = "complete"
  /\ UNCHANGED <<variant, clock, keychain, file, apiKey, loc, data, fresh, err,
                 invocations, elapses, startLog, readLog, lastWrite>>
  /\ UNCHANGED presenter

\* Time passes: between two runs, and while the request is under way.
Elapse ==
  /\ pc \in {"idle", "complete", "fetch"}
  /\ elapses < MaxElapses
  /\ \E d \in Delays(variant) : clock' = clock + d
  /\ elapses' = elapses + 1
  /\ UNCHANGED <<variant, keychain, file, pc, apiKey, loc, data, fresh, err, widget,
                 invocations, trace, startLog, readLog, lastWrite>>
  /\ UNCHANGED presenter

Next ==
  \/ Start \/ GetApiKey \/ GetLocation \/ ReadCache \/ Fetch \/ WriteCache
  \/ Render \/ ShowError \/ Elapse

Spec == Init /\ [][Next]_vars

\* ---------------------------------------------------------------- presenter
\* The functions of the presenter applied to inputs of every shape.
WithProp(o, k, v) == IF v.t = "undef" THEN o ELSE SetProp(o, k, v)

Cloudy == Str(<<"C", "l", "o", "u", "d", "y">>)
Sunny == Str(<<"S", "u", "n", "n", "y">>)
RAIN == Str(<<"R", "A", "I", "N">>)

\* description: absent, null, a string, a number, an object with or without
\* a text.
Descriptions ==
  { Undefined, Null, Str(<<>>), Cloudy, Num(5), Obj(<<>>, <<>>),
    Obj(<<K_text>>, <<Cloudy>>), Obj(<<K_text>>, <<Str(<<>>)>>),
    Obj(<<K_text>>, <<Num(5)>>), Obj(<<K_text>>, <<Null>>),
    Obj(<<K_text>>, <<Str(<<"L", "i", "g", "h", "t", " ", "r", "a", "i", "n">>)>>), Obj(<<K_text>>, <<Str(<<"S", "l", "e", "e", "t">>)>>),
    Str(<<"T", "h", "u", "n", "d", "e", "r", "s", "t", "o", "r", "m">>), Str(<<"H", "e", "a", "v", "y", " ", "s", "n", "o", "w">>), Str(<<"S", "l", "e", "e", "t">>), Str(<<"L", "i", "g", "h", "t", " ", "r", "a", "i", "n">>),
    Str(<<"D", "r", "i", "z", "z", "l", "e">>), Str(<<"H", "a", "z", "e">>), Str(<<"O", "v", "e", "r", "c", "a", "s", "t">>), Str(<<"C", "l", "e", "a", "r">>), Str(<<"W", "i", "n", "d", "y">>) }

\* type: absent, null, empty, no string, a type the rules know, in either
\* case, and types they do not know.
Types ==
  { Undefined, Null, RAIN, Str(<<>>), Num(3),
    Str(<<"T", "H", "U", "N", "D", "E", "R", "S", "T", "O", "R", "M">>), Str(<<"S", "N", "O", "W">>), Str(<<"R", "A", "I", "N", "_", "S", "H", "O", "W", "E", "R", "S">>), Str(<<"S", "C", "A", "T", "T", "E", "R", "E", "D", "_", "S", "H", "O", "W", "E", "R", "S">>), Str(<<"F", "O", "G">>),
    Str(<<"H", "A", "Z", "E">>), Str(<<"O", "V", "E", "R", "C", "A", "S", "T">>), Str(<<"M", "O", "S", "T", "L", "Y", "_", "C", "L", "O", "U", "D", "Y">>), Str(<<"P", "A", "R", "T", "L", "Y", "_", "C", "L", "O", "U", "D", "Y">>), Str(<<"C", "L", "E", "A", "R">>),
    Str(<<"M", "O", "S", "T", "L", "Y", "_", "S", "U", "N", "N", "Y">>), Str(<<"c", "l", "e", "a", "r">>), Str(<<"W", "I", "N", "D", "Y">>), Str(<<"T", "O", "R", "N", "A", "D", "O">>) }

RawConditions ==
  { Undefined, Null, Str(<<>>), Sunny, Cloudy, RAIN, Str(<<" ">>), Num(0), Num(5),
    Bool(TRUE), Bool(FALSE), Arr(<<>>),
    Str(<<"T", "h", "u", "n", "d", "e", "r", "s", "t", "o", "r", "m">>), Str(<<"S", "l", "e", "e", "t">>), Str(<<"D", "r", "i", "z", "z", "l", "e">>), Str(<<"O", "v", "e", "r", "c", "a", "s", "t">>), Str(<<"F", "o", "g", "g", "y">>), Str(<<"C", "l", "e", "a", "r", " ", "s", "k", "y">>),
    Str(<<"l", "i", "g", "h", "t", " ", "r", "a", "i", "n", " ", "s", "h", "o", "w", "e", "r", "s">>), Str(<<"S", "n", "o", "w", "s", "t", "o", "r", "m">>), Str(<<"W", "i", "n", "d", "y">>) }
    \cup { WithProp(WithProp(Obj(<<>>, <<>>), K_description, d), K_type, t) :
             d \in Descriptions, t \in Types }

\* speed: absent, without a value, null, whole and fractional values in
\* each unit.
Speeds ==
  { Undefined, Obj(<<>>, <<>>), Obj(<<K_value>>, <<Null>>),
    Obj(<<K_value>>, <<Num(0)>>),
    Obj(<<K_value, K_unit>>, <<Num(840), Str(<<"K", "I", "L", "O", "M", "E", "T", "E", "R", "S", "_", "P", "E", "R", "_", "H", "O", "U", "R">>)>>),
    Obj(<<K_value, K_unit>>, <<Num(1250), Str(<<"M", "I", "L", "E", "_", "P", "E", "R", "_", "H", "O", "U", "R">>)>>),
    Obj(<<K_value, K_unit>>, <<Num(300), Str(<<"M", "E", "T", "E", "R", "_", "P", "E", "R", "_", "S", "E", "C", "O", "N", "D">>)>>) }

\* degrees, in hundredths: inside 0..360, at and next to a sector boundary,
\* 360 and beyond, negative.
Degrees ==
  { Num(0), Num(1124), Num(1125), Num(9000), Num(33500), Num(34875), Num(35999),
    Num(36000), Num(45000), Num(72000), Num(-500), Num(-1125), Num(-4500),
    Num(-9000), Num(-35000), Num(-40500) }

\* direction: absent, without degrees, null, a number, no number.
Directions ==
  { Undefined, Obj(<<>>, <<>>), Obj(<<K_degrees>>, <<Null>>),
    Obj(<<K_degrees>>, <<Str(<<"N", "W">>)>>) }
    \cup { Obj(<<K_degrees>>, <<d>>) : d \in Degrees }

Winds ==
  { Undefined, Null }
    \cup { WithProp(WithProp(Obj(<<>>, <<>>), K_speed, sp), K_direction, di) :
             sp \in Speeds, di \in Directions }

\* isDaytime: true, false, absent.
Daytimes == {Bool(TRUE), Bool(FALSE), Undefined}

InitPresenter ==
  /\ variant \in Variants
  /\ clock = Epoch
  /\ keychain = NoKeychain
  /\ file = NoFile
  /\ pc = "idle"
  /\ apiKey = Undefined /\ loc = Undefined /\ data = Undefined /\ fresh = Undefined
  /\ err = NoError
  /\ widget = NoWidget
  /\ invocations = 0
  /\ elapses = 0
  /\ trace = <<>>
  /\ startLog = [keychain |-> keychain, file |-> file]
  /\ readLog = NoRead
  /\ lastWrite = NoWrite
  /\ condText = Undefined
  /\ symbolCurrent = "" /\ symbolDaily = ""
  /\ windStr = <<>>
  /\ \/ /\ weatherCondition \in RawConditions
        /\ isDaytime \in Daytimes
        /\ wind = Undefined
        /\ ppc = "input"
     \/ /\ weatherCondition = Undefined
        /\ isDaytime = Undefined
        /\ wind \in Winds
        /\ ppc = "wind"

\* const condTextNorm = normalizeConditionText(weatherCond);
Normalize ==
  /\ ppc = "input"
  /\ condText' = normalizeConditionText(weatherCondition)
  /\ ppc' = "normalized"
  /\ UNCHANGED <<main, weatherCondition, isDaytime, symbolCurrent, symbolDaily,
                 wind, windStr>>

\* const symbolName = pickSymbol(weatherCond, isDay), in either script.
PickSymbol ==
  /\ ppc = "normalized"
  /\ symbolCurrent' = pickSymbolCurrent(weatherCondition, isDaytime)
  /\ symbolDaily' = pickSymbolDaily(weatherCondition, isDaytime)
  /\ ppc' = "picked"
  /\ UNCHANGED <<main, weatherCondition, isDaytime, condText, wind, windStr>>

\* const windStr = fmtWind(windObj);
FmtWind ==
  /\ ppc = "wind"
  /\ windStr' = fmtWind(wind)
  /\ ppc' = "formatted"
  /\ UNCHANGED <<main, weatherCondition, isDaytime, condText, symbolCurrent,
                 symbolDaily, wind>>

NextPresenter == Normalize \/ PickSymbol \/ FmtWind

SpecPresenter == InitPresenter /\ [][NextPresenter]_vars

\* ================================================================== claims
\* What this invocation's readCache found in the file (readLog.parsed is
\* JSON.parse of its text), stated independently of readCache.
FoundTimestamp == GetProp(readLog.parsed.v, K_timestamp)
FoundData == GetProp(readLog.parsed.v, K_data)
LifetimeMs == CACHE_MIN(variant) * MsPerMin
FoundAge == readLog.at - FoundTimestamp.n

\* A parsable record with a numeric timestamp.
FoundRecord ==
  /\ readLog.done /\ readLog.file.exists /\ readLog.parsed.ok
  /\ readLog.parsed.v.t = "obj" /\ FoundTimestamp.t = "num"

\* A valid entry: a record with a data payload whose age is within the lifetime.
FoundValidEntry == FoundRecord /\ FoundData.t # "undef" /\ FoundAge <= LifetimeMs

\* File missing, not JSON, JSON that is no object, or an object without a
\* timestamp.
FoundMalformed ==
  /\ readLog.done
  /\ \/ ~readLog.file.exists
     \/ ~readLog.parsed.ok
     \/ readLog.parsed.v.t # "obj"
     \/ FoundTimestamp.t \in {"undef", "null"}

\* No file, a malformed record or an expired one.
FoundAbsent == FoundMalformed \/ (FoundRecord /\ FoundAge > LifetimeMs)

C2_Original ==
  pc = "complete" /\ Did("fetchFailed") /\ FoundValidEntry
    => /\ widget.kind = "normal"
       /\ widget.data = FoundData
       /\ err = NoError

\* C3: whenever the fetch fails and readCache returned absent (no file, a
\* malformed record or an expired one), the invocation ends in the error
\* widget carrying the fetch error, the renderer is never invoked, and the
\* script completes.
C3_FailedFetchNoCacheIsTerminal ==
  Did("fetchFailed") /\ FoundAbsent
    => /\ readLog.result = Null
       /\ ~Did("render")
       /\ err.msg \in {"HTTP", "The request timed out."}
       /\ pc \in {"catch", "complete"}
       /\ (pc = "catch" => ENABLED ShowError)
       /\ (pc = "complete"
             => widget.kind = "error" /\ widget.err = err
                /\ trace[Len(trace)] = "error")

\* An expired record was read, the request got HTTP 400, the error widget
\* shows it.
C3_Witness ==
  /\ pc = "complete" /\ Did("fetchFailed")
  /\ FoundRecord /\ FoundAge > LifetimeMs
  /\ widget.kind = "error" /\ widget.err = [msg |-> "HTTP", code |-> 400]

\* C4: the cache file is left as it is by every readCache call, also one that
\* finds the record expired or malformed, and by every invocation whose fetch
\* fails; only writeCache after a successful fetch changes it.
C4_OnlyWriteAfterFetchChangesFile ==
  /\ [](readLog.done /\ ~Did("writeCache") => file = readLog.file /\ file = startLog.file)
  /\ [][file' # file
          => pc = "writeCache" /\ trace[Len(trace)] = "fetchOk"
             /\ trace'[Len(trace')] = "writeCache"]_vars

\* An expired record was read and the fetch failed: the file is still there.
C4_Witness ==
  /\ pc = "complete" /\ Did("fetchFailed")
  /\ FoundRecord /\ FoundAge > LifetimeMs
  /\ file = readLog.file /\ file.exists

\* C5: for every record, readCache returns the stored data when
\* now - timestamp <= CACHE_MIN minutes (the boundary included) and null when
\* the age is greater, whatever the data.
C5_ReadCacheByAge ==
  FoundRecord
    => readLog.result =
         IF FoundAge <= LifetimeMs
         THEN FoundData ELSE Null

\* A record exactly CACHE_MIN minutes old was read and its data returned.
C5_Witness ==
  /\ FoundRecord /\ FoundAge = LifetimeMs
  /\ readLog.result = FoundData /\ ~Falsy(readLog.result)

\* C6: for every malformed cache file (missing, not JSON, JSON that is no
\* object, an object without a timestamp) readCache returns null and does not
\* throw: the invocation goes on to the fetch.
C6_MalformedIsAbsent ==
  FoundMalformed
    => /\ readLog.result = Null
       /\ Did("readCache") /\ ~Did("readThrew")
       /\ (pc = "fetch" \/ Did("fetchOk") \/ Did("fetchFailed"))

\* The file held the JSON text null; the invocation is at the fetch.
C6_Witness ==
  /\ readLog.done /\ readLog.file = FileOf(<<Tok("null")>>)
  /\ pc = "fetch" /\ data = Null

\* C7: after a writeCache(d) that went through, a readCache no later than
\* CACHE_MIN minutes after it returns a value equal to d, whatever was in the
\* file before the write.
C7_WriteThenReadRoundTrip ==
  readLog.done /\ readLog.written.done
    /\ readLog.at - readLog.written.at <= LifetimeMs
    => readLog.result = readLog.written.data

\* A nested payload was written over an existing file and read back at the
\* end of its lifetime.
C7_Witness ==
  /\ readLog.done /\ readLog.written.done /\ readLog.written.replaced
  /\ readLog.at - readLog.written.at = LifetimeMs
  /\ readLog.written.data = Obj(<<K_forecastDays>>, <<Arr(<<Obj(<<>>, <<>>)>>)>>)
  /\ readLog.result = readLog.written.data

\* C8: if the fetch succeeds and the write of the cache file fails,
\* writeCache does not throw, the fresh data is rendered in the normal widget
\* and no error widget is shown.
C8_WriteFailureSwallowed ==
  Did("writeFailed")
    => /\ pc \in {"build", "complete"}
       /\ err = NoError
       /\ ~Did("error")
       /\ (pc = "complete" => widget.kind = "normal" /\ widget.data = fresh)

\* The write failed and the normal widget shows the fresh data.
C8_Witness ==
  /\ pc = "complete" /\ Did("writeFailed")
  /\ widget.kind = "normal" /\ widget.data = fresh /\ ~Falsy(fresh)
  /\ file = startLog.file

\* C9: if getApiKey fails (the prompt is cancelled, or the entered key is
\* empty after trimming), the invocation is terminal: the error widget is
\* shown, the Keychain is not written, and there is no location lookup, cache
\* read, fetch or cache write.
CredentialFailed == err.msg \in {"API key input cancelled.", "Empty API key."}
C9_CredentialFailureIsTerminal ==
  CredentialFailed
    => /\ keychain = startLog.keychain
       /\ file = startLog.file
       /\ ~Did("getLocation") /\ ~readLog.done
       /\ ~Did("fetchOk") /\ ~Did("fetchFailed")
       /\ ~Did("writeCache") /\ ~Did("writeFailed") /\ ~Did("render")
       /\ pc \in {"catch", "complete"}
       /\ (pc = "catch" => ENABLED ShowError)
       /\ (pc = "complete" => widget.kind = "error" /\ widget.err = err)

\* A key of white space only was entered: the error widget says so.
C9_Witness ==
  /\ pc = "complete" /\ err.msg = "Empty API key."
  /\ widget.kind = "error" /\ trace = <<"getApiKey", "error">>
  /\ ~startLog.keychain.has

\* typeof v: a property of null or undefined is not read.
StringAt(v, k) == ~Falsy(v) /\ IsString(GetProp(v, k))

\* C10 (as claimed): normalizeConditionText returns (1) a raw condition that
\* is a string verbatim, for every string; (2) else a string description;
\* (3) else a string description.text; (4) else a string type; (5) else null.
C10_Original ==
  ppc = "normalized"
    => condText =
         IF IsString(weatherCondition) THEN weatherCondition
         ELSE IF StringAt(weatherCondition, K_description)
              THEN GetProp(weatherCondition, K_description)
         ELSE IF ~Falsy(weatherCondition)
                 /\ StringAt(GetProp(weatherCondition, K_description), K_text)
              THEN GetProp(GetProp(weatherCondition, K_description), K_text)
         ELSE IF StringAt(weatherCondition, K_type)
              THEN GetProp(weatherCondition, K_type)
         ELSE Null

\* The type of the raw condition, for a condition that has a non-empty string
\* as its type.
HasType == ~Falsy(weatherCondition) /\ IsString(GetProp(weatherCondition, K_type))
             /\ GetProp(weatherCondition, K_type).s # <<>>
TypeOnly == Obj(<<K_type>>, <<GetProp(weatherCondition, K_type)>>)

\* A rule list: the icon of the first rule one of whose words occurs in the
\* text, by daylight; the clear icon where no rule matches.
Rule(words, day, night) == [words |-> words, day |-> day, night |-> night]
RuleMatches(rules, t) == {i \in 1..Len(rules) : \E x \in rules[i].words : Includes(t, x)}
RuleIcon(rules, t, isDay) ==
  IF RuleMatches(rules, t) = {}
  THEN (IF isDay THEN "sun.max.fill" ELSE "moon.stars.fill")
  ELSE LET i == CHOOSE i \in RuleMatches(rules, t) : \A j \in RuleMatches(rules, t) : i <= j
       IN IF isDay THEN rules[i].day ELSE rules[i].night

\* The typed rules, on the uppercased type.
TypedRules ==
  << Rule({<<"T", "H", "U", "N", "D", "E", "R">>, <<"S", "T", "O", "R", "M">>}, "cloud.bolt.rain.fill", "cloud.bolt.rain.fill"),
     Rule({<<"S", "N", "O", "W">>}, "cloud.snow.fill", "cloud.snow.fill"),
     Rule({<<"R", "A", "I", "N">>, <<"S", "H", "O", "W", "E", "R", "S">>}, "cloud.rain.fill", "cloud.rain.fill"),
     Rule({<<"F", "O", "G">>, <<"H", "A", "Z", "E">>, <<"M", "I", "S", "T">>}, "cloud.fog.fill", "cloud.fog.fill"),
     Rule({<<"O", "V", "E", "R", "C", "A", "S", "T">>}, "smoke.fill", "smoke.fill"),
     Rule({<<"M", "O", "S", "T", "L", "Y", "_", "C", "L", "O", "U", "D", "Y">>, <<"C", "L", "O", "U", "D", "Y">>, <<"P", "A", "R", "T", "L", "Y", "_", "C", "L", "O", "U", "D", "Y">>},
          "cloud.sun.fill", "cloud.moon.fill"),
     Rule({<<"C", "L", "E", "A", "R">>, <<"S", "U", "N", "N", "Y">>}, "sun.max.fill", "moon.stars.fill") >>

\* The type is one that a typed rule matches.
TypeKnown ==
  HasType /\ RuleMatches(TypedRules, toUpperCase(GetProp(weatherCondition, K_type).s)) # {}

\* C11 (as claimed): the text path is consulted only when the type field is
\* absent: for every condition that has a non-empty type, the icon of the
\* forecast script is the one chosen for the type alone, whatever the
\* description.
C11_Original ==
  ppc = "picked" /\ HasType
    => symbolDaily = pickSymbolDaily(TypeOnly, isDaytime)

\* C11 (amended): the typed path is tried first and the text path is consulted
\* only when no typed rule matches: for every condition whose type a typed rule
\* matches, the icon of the forecast script is the icon of the first matching
\* typed rule, whatever the description.
C11_KnownTypeDecidesIcon ==
  ppc = "picked" /\ TypeKnown
    => symbolDaily = RuleIcon(TypedRules, toUpperCase(GetProp(weatherCondition, K_type).s),
                              ~Falsy(isDaytime))

\* Type SNOW with the description "Light rain" gives the snow icon.
C11_Witness ==
  /\ ppc = "picked" /\ TypeKnown
  /\ GetProp(weatherCondition, K_type) = Str(<<"S", "N", "O", "W">>)
  /\ GetProp(weatherCondition, K_description) = Str(<<"L", "i", "g", "h", "t", " ", "r", "a", "i", "n">>)
  /\ symbolDaily = "cloud.snow.fill"

\* The text rules, on the lowercased description.
TextRules ==
  << Rule({<<"s", "t", "o", "r", "m">>, <<"t", "h", "u", "n", "d", "e", "r">>}, "cloud.bolt.rain.fill", "cloud.bolt.rain.fill"),
     Rule({<<"s", "n", "o", "w">>, <<"s", "l", "e", "e", "t">>}, "cloud.snow.fill", "cloud.snow.fill"),
     Rule({<<"r", "a", "i", "n">>, <<"d", "r", "i", "z", "z", "l", "e">>}, "cloud.rain.fill", "cloud.rain.fill"),
     Rule({<<"f", "o", "g">>, <<"m", "i", "s", "t">>, <<"h", "a", "z", "e">>}, "cloud.fog.fill", "cloud.fog.fill"),
     Rule({<<"o", "v", "e", "r", "c", "a", "s", "t">>}, "smoke.fill", "smoke.fill"),
     Rule({<<"c", "l", "o", "u", "d">>}, "cloud.sun.fill", "cloud.moon.fill"),
     Rule({<<"c", "l", "e", "a", "r">>, <<"s", "u", "n", "n", "y">>}, "sun.max.fill", "moon.stars.fill") >>

\* The normalized description, lowercased; empty where there is none.
LowerDescription == toLowerCase(IF IsString(condText) THEN condText.s ELSE <<>>)

\* The forecast script takes its text path: no typed rule matches the type.
TextPathTaken == RuleMatches(TypedRules, getConditionType(weatherCondition)) = {}

\* C12 (as claimed): the text path, in the current-conditions script and as
\* the fallback of the forecast script alike, returns the icon of the first
\* matching text rule on the lowercased normalized description, the clear icon
\* where none matches; so both give the same icon.
C12_Original ==
  ppc = "picked"
    => /\ symbolCurrent = RuleIcon(TextRules, LowerDescription, isDaytime = Bool(TRUE))
       /\ (TextPathTaken
             => symbolDaily = RuleIcon(TextRules, LowerDescription, isDaytime = Bool(TRUE)))

\* The speed value and the degrees of the wind record, null where absent.
SpeedValue == g(wind, <<K_speed, K_value>>, Null)
DirectionDegrees == g(wind, <<K_direction, K_degrees>>, Null)

\* The text ends with these characters.
EndsWith(text, x) ==
  Len(text) >= Len(x) /\ SubSeq(text, Len(text) - Len(x) + 1, Len(text)) = x

\* round((deg mod 360) / 22.5) mod 16, for degrees in hundredths.
CompassIndex(deg) == (((2 * (deg % 36000)) + 2250) \div 4500) % 16

\* C13 (as claimed): for every wind record with a speed, fmtWind appends a
\* direction exactly when the degrees are a number, and the direction is the
\* element of the compass list at index round((deg mod 360) / 22.5) mod 16,
\* also for negative degrees and degrees from 360 on; without a speed the
\* text is the dash alone.
C13_Original ==
  ppc = "formatted"
    => IF SpeedValue.t = "null" THEN windStr = EmDash
       ELSE IF DirectionDegrees.t = "num"
            THEN /\ CompassIndex(DirectionDegrees.n) \in 0..15
                 /\ EndsWith(windStr, <<" ">> \o dirs[CompassIndex(DirectionDegrees.n) + 1])
       ELSE \E sym \in {<<"k", "m", "/", "h">>, <<"m", "p", "h">>, <<"m", "/", "s">>} : EndsWith(windStr, <<" ">> \o sym)

\* The place of a step in the order of MAIN.
Rank(step) ==
  CASE step = "getApiKey" -> 1
    [] step = "getLocation" -> 2
    [] step \in {"readCache", "readThrew"} -> 3
    [] step \in {"fetchOk", "fetchFailed"} -> 4
    [] step \in {"writeCache", "writeFailed"} -> 5
    [] step = "render" -> 6
    [] step = "error" -> 7

\* C14: within one invocation the steps happen in the order credential
\* retrieval, location acquisition, cache read, fetch attempt, optional cache
\* write, render; there is at most one fetch attempt, one cache read and one
\* cache write, none is skipped before the fetch, and the write comes directly
\* after the successful fetch of this invocation.
C14_StepsInOrder ==
  /\ \A i, j \in 1..Len(trace) : i < j => Rank(trace[i]) < Rank(trace[j])
  /\ \A i \in 1..Len(trace) :
       /\ Rank(trace[i]) <= 4 => Rank(trace[i]) = i
       /\ Rank(trace[i]) = 5 => i = 5 /\ trace[4] = "fetchOk"
       /\ Rank(trace[i]) = 6 => i \in {5, 6} /\ trace[4] \in {"fetchOk", "fetchFailed"}
                                  /\ (i = 5 => trace[4] = "fetchFailed")

\* A full invocation: every step once, the write between fetch and render.
C14_Witness ==
  /\ pc = "complete"
  /\ trace = <<"getApiKey", "getLocation", "readCache", "fetchOk", "writeCache", "render">>
  /\ invocations = 2

\* C15: over any sequence of invocations the data rendered is the response of
\* this invocation's own successful fetch, or the payload of the most recent
\* successful cache write (of the record an earlier run left in the file, where
\* no run of this sequence has written), and then the record's timestamp is at
\* most CACHE_MIN minutes before this invocation's cache read.
C15_RenderedIsFreshOrLiveCache ==
  Did("render")
    => /\ widget.kind = "normal"
       /\ IF Did("fetchOk") THEN widget.data = fresh
          ELSE /\ Did("fetchFailed")
               /\ FoundRecord /\ widget.data = FoundData /\ FoundAge <= LifetimeMs
               /\ readLog.written.done
                    => /\ widget.data = readLog.written.data
                       /\ FoundTimestamp.n = readLog.written.at
                       /\ readLog.at - readLog.written.at <= LifetimeMs

\* The second invocation's fetch failed exactly CACHE_MIN minutes after the
\* first one wrote the cache: the payload written then is rendered.
C15_Witness ==
  /\ pc = "complete" /\ Did("render") /\ Did("fetchFailed")
  /\ readLog.written.done
  /\ readLog.at - readLog.written.at = LifetimeMs
  /\ widget.data = readLog.written.data

====
